---- MODULE Spec2Model ----
(***************************************************************************)
(* checkly-mcp: the guarded update workflow (update_check) and the         *)
(* triggered-run await workflow (run_check) behind the read-only gate,     *)
(* as the tool handler of src/src/client.ts runs them against the remote   *)
(* Checkly service.                                                        *)
(*                                                                         *)
(* Time is counted in seconds: the 3000 ms pause is PauseSec, the          *)
(* 120_000 ms deadline is DeadlineSec.                                     *)
(***************************************************************************)
EXTENDS Integers, Sequences, FiniteSets, TLC

(***************************************************************************)
(* Bounds of the model.                                                    *)
(***************************************************************************)
MaxLatency == 1        \* a remote call takes 0..MaxLatency seconds
MaxSessions == 2       \* the trigger returns 0..MaxSessions sessions
LongScriptLen == 500   \* length of the longest requested script

\* the call slots of the handler; Spec uses the first one only, so that a
\* behaviour is one tool call and, for update_check, its repetition
Calls == {1, 2}
Sequential == {1}
Latencies == 0..MaxLatency

(***************************************************************************)
(* JavaScript values: a value carries its typeof tag, so that !== is       *)
(* plain inequality of tagged values.                                      *)
(***************************************************************************)
Undefined == <<"undefined">>
Str(s) == <<"string", s>>
Num(n) == <<"number", n>>
Bool(b) == <<"boolean", b>>
typeof(v) == v[1]

(***************************************************************************)
(* Strings are run-length encoded: a sequence of <<char, count>> with      *)
(* count > 0 and no two neighbours of the same char, so that equal         *)
(* strings have equal encodings.                                           *)
(***************************************************************************)
Rep(ch, n) == IF n = 0 THEN <<>> ELSE << <<ch, n>> >>

RECURSIVE length(_)
length(s) == IF s = <<>> THEN 0 ELSE Head(s)[2] + length(Tail(s))

\* s.slice(0, n)
RECURSIVE slice(_, _)
slice(s, n) ==
  IF s = <<>> \/ n = 0 THEN <<>>
  ELSE IF Head(s)[2] >= n THEN << <<Head(s)[1], n>> >>
  ELSE <<Head(s)>> \o slice(Tail(s), n - Head(s)[2])

\* a + b
concat(a, b) ==
  IF a = <<>> THEN b
  ELSE IF b = <<>> THEN a
  ELSE IF a[Len(a)][1] = b[1][1]
       THEN SubSeq(a, 1, Len(a) - 1)
            \o << <<b[1][1], a[Len(a)][2] + b[1][2]>> >> \o Tail(b)
       ELSE a \o b

Ellipsis == Rep("ELLIPSIS", 1)
TruncLen == 120

\* the display form of a diff value
Truncate(v) ==
  IF typeof(v) = "string" /\ length(v[2]) > TruncLen
  THEN Str(concat(slice(v[2], TruncLen), Ellipsis))
  ELSE v

(***************************************************************************)
(* JavaScript objects are functions from their own keys to values.         *)
(***************************************************************************)
EmptyObject == <<>>
Get(o, k) == IF k \in DOMAIN o THEN o[k] ELSE Undefined

\* { ...a, ...b }
Spread(a, b) ==
  [k \in (DOMAIN a) \cup (DOMAIN b) |-> IF k \in DOMAIN b THEN b[k] ELSE a[k]]

\* JSON.stringify of an object, as the receiver parses it: a key whose
\* value is undefined is left out
JSONstringify(o) == [k \in {j \in DOMAIN o : o[j] # Undefined} |-> o[k]]

(***************************************************************************)
(* The data the model draws from.                                          *)
(***************************************************************************)
Ids == {"X", "Y"}            \* "X" exists on the remote service, "Y" does not
UpdateKeys == {"script", "name", "activated", "frequency"}

NameP == Str(Rep("p", 1))
NameQ == Str(Rep("q", 1))
ShortScript == Str(Rep("s", 3))
Script120 == Str(Rep("x", TruncLen))
LongA == Str(Rep("x", TruncLen + 1))
LongB == Str(concat(Rep("x", TruncLen), Rep("y", 1)))
LongScript == Str(Rep("z", LongScriptLen))
TagsOne == Str(Rep("t", 1))
TagsTwo == Str(Rep("u", 1))

\* the checks the remote service may hold under id "X" at the start
BaseCheck ==
  [k \in {"id", "name", "activated", "frequency", "tags", "alertSettings"} |->
     CASE k = "id" -> Str(Rep("X", 1))
       [] k = "name" -> NameP
       [] k = "activated" -> Bool(TRUE)
       [] k = "frequency" -> Num(5)
       [] k = "tags" -> TagsOne
       [] k = "alertSettings" -> Str(Rep("w", 1))]

InitialChecks ==
  {BaseCheck} \cup {Spread(BaseCheck, [k \in {"script"} |-> s]) :
                      s \in {ShortScript, LongA}}

\* the arguments of an update_check call: every subset of the four
\* settable fields, each with a value of its declared type
ArgValues ==
  [script : {Undefined, ShortScript, Script120, LongA, LongB, LongScript},
   name : {Undefined, NameP, NameQ},
   activated : {Undefined, Bool(TRUE), Bool(FALSE)},
   frequency : {Undefined, Num(5), Num(10), Num(7)}]

UpdateArgs == {JSONstringify(a) : a \in ArgValues}

(***************************************************************************)
(* State.                                                                  *)
(***************************************************************************)
VARIABLES
  env,        \* process.env.CHECKLY_READ_ONLY
  readOnly,   \* config.readOnly, fixed at startup
  remote,     \* the remote service: check id -> stored check
  calls       \* per tool call: its position, locals, remote calls and result

vars == <<env, readOnly, remote, calls>>

\* locals of a call that has not begun
Idle ==
  [pc |-> "idle", tool |-> "none", id |-> "", updates |-> EmptyObject,
   confirm |-> FALSE, awaitResult |-> FALSE,
   current |-> EmptyObject, diff |-> EmptyObject, body |-> EmptyObject,
   before |-> EmptyObject, trace |-> <<>>,
   result |-> EmptyObject, isError |-> FALSE,
   attempt |-> 1, prevResult |-> EmptyObject, disturbed |-> FALSE,
   now |-> 0, sessionsSeen |-> "untriggered",
   entry |-> 0, deadline |-> 0, session |-> EmptyObject,
   statuses |-> <<>>, arrivedInPause |-> FALSE]

\* the string with the given characters
RECURSIVE FromChars(_)
FromChars(cs) ==
  IF cs = <<>> THEN <<>> ELSE concat(Rep(Head(cs), 1), FromChars(Tail(cs)))

\* the values CHECKLY_READ_ONLY may have when the server starts: unset, "",
\* "false", "FALSE", "0", "no", "true"
EnvValues ==
  {Undefined} \cup
  {Str(FromChars(cs)) :
     cs \in {<<>>, <<"f", "a", "l", "s", "e">>, <<"F", "A", "L", "S", "E">>,
             <<"0">>, <<"n", "o">>, <<"t", "r", "u", "e">>}}

\* getConfig that takes "true" for the only value that enables the gate
ReadOnlyOnlyWhenTrue(value) == value = Str(FromChars(<<"t", "r", "u", "e">>))

\* getConfig: readOnly: process.env.CHECKLY_READ_ONLY !== "false"
GetConfigReadOnly(value) == value # Str(FromChars(<<"f", "a", "l", "s", "e">>))

Init ==
  /\ env \in EnvValues
  /\ readOnly = GetConfigReadOnly(env)
  /\ remote \in {[i \in {"X"} |-> e] : e \in InitialChecks}
  /\ calls = [c \in Calls |-> Idle]

(***************************************************************************)
(* The tool handler and the Access Gate.                                   *)
(***************************************************************************)
\* the update request the handler builds from the call's arguments: all
\* four keys, undefined where the argument is missing
HandlerUpdates(args) == [k \in UpdateKeys |-> Get(args, k)]

ReadOnlyResult ==
  [k \in {"error"} |->
     "Server is in read-only mode. Set CHECKLY_READ_ONLY=false to enable writes."]

\* the catch branch of the handler: a thrown failure becomes an
\* error-flagged response
Thrown(l) == [l EXCEPT !.pc = "done", !.result = EmptyObject, !.isError = TRUE]

Returned(l, r) == [l EXCEPT !.pc = "done", !.result = r]

(***************************************************************************)
(* update_check                                                            *)
(***************************************************************************)
\* Diff that lists every supplied field, changed or not
DiffOfSupplied(current, updates) ==
  [k \in {j \in DOMAIN updates : updates[j] # Undefined} |->
     [from |-> Truncate(Get(current, k)), to |-> Truncate(updates[k])]]

\* the diff loop over Object.entries(updates)
Diff(current, updates) ==
  [k \in {j \in DOMAIN updates :
            updates[j] # Undefined /\ Get(current, j) # updates[j]} |->
     [from |-> Truncate(Get(current, k)), to |-> Truncate(updates[k])]]

\* Payload built from the display form of the requested values
PayloadTruncated(current, updates) ==
  Spread(current, [k \in DOMAIN updates |-> Truncate(updates[k])])

\* const payload = { ...current, ...updates }
Payload(current, updates) == Spread(current, updates)

\* EnterUpdate without the gate
EnterUpdateUngated(l) == [l EXCEPT !.pc = "get", !.trace = Append(@, "GET")]

\* updateCheck up to its first await: the gate, then the GET is issued
EnterUpdate(l) ==
  IF readOnly
  THEN Returned(l, ReadOnlyResult)
  ELSE [l EXCEPT !.pc = "get", !.trace = Append(@, "GET")]

StartUpdate(c, id, args, confirm) ==
  /\ \A d \in Calls : calls[d].pc = "idle"
  /\ calls' = [calls EXCEPT ![c] =
       EnterUpdate([Idle EXCEPT !.tool = "update_check", !.id = id,
                                !.updates = HandlerUpdates(args),
                                !.confirm = confirm])]
  /\ UNCHANGED <<env, readOnly, remote>>

\* the caller issues the same update_check call a second time
CallAgain(c) ==
  /\ calls[c].pc = "done"
  /\ calls[c].tool = "update_check"
  /\ calls[c].attempt = 1
  /\ calls' = [calls EXCEPT ![c] =
       EnterUpdate([Idle EXCEPT !.tool = "update_check", !.id = calls[c].id,
                                !.updates = calls[c].updates,
                                !.confirm = calls[c].confirm,
                                !.attempt = 2,
                                !.prevResult = calls[c].result,
                                !.disturbed = calls[c].disturbed])]
  /\ UNCHANGED <<env, readOnly, remote>>

\* the caller applies the change a dry run has just previewed: the same
\* update_check call with confirm: true
ApplyPreviewed(c) ==
  /\ calls[c].pc = "done"
  /\ calls[c].tool = "update_check"
  /\ calls[c].attempt = 1
  /\ ~calls[c].confirm
  /\ "checkId" \in DOMAIN calls[c].result
  /\ calls' = [calls EXCEPT ![c] =
       EnterUpdate([Idle EXCEPT !.tool = "update_check", !.id = calls[c].id,
                                !.updates = calls[c].updates,
                                !.confirm = TRUE,
                                !.attempt = 2,
                                !.prevResult = calls[c].result,
                                !.disturbed = calls[c].disturbed])]
  /\ UNCHANGED <<env, readOnly, remote>>

\* AfterFetch that applies whatever confirm says
AfterFetchAlwaysApplies(l, current) ==
  LET diff == Diff(current, l.updates)
      m == [l EXCEPT !.current = current, !.diff = diff]
  IN  IF DOMAIN diff = {}
      THEN Returned(m, [k \in {"message", "diff"} |->
                          IF k = "message" THEN "No changes detected."
                          ELSE EmptyObject])
      ELSE [m EXCEPT !.pc = "put",
                     !.body = JSONstringify(Payload(current, l.updates)),
                     !.trace = Append(@, "PUT")]

\* the rest of updateCheck once the GET has answered with `current`
AfterFetch(l, current) ==
  LET diff == Diff(current, l.updates)
      m == [l EXCEPT !.current = current, !.diff = diff]
  IN  IF DOMAIN diff = {}
      THEN Returned(m, [k \in {"message", "diff"} |->
                          IF k = "message" THEN "No changes detected."
                          ELSE EmptyObject])
      ELSE IF ~l.confirm
      THEN Returned(m, [k \in {"message", "checkId", "checkName", "diff"} |->
                          CASE k = "message" ->
                                 "Dry run - pass confirm: true to apply."
                            [] k = "checkId" -> l.id
                            [] k = "checkName" -> Get(current, "name")
                            [] k = "diff" -> diff])
      ELSE [m EXCEPT !.pc = "put",
                     !.body = JSONstringify(Payload(current, l.updates)),
                     !.trace = Append(@, "PUT")]

GetOk(c) ==
  /\ calls[c].pc = "get"
  /\ calls[c].id \in DOMAIN remote
  /\ calls' = [calls EXCEPT ![c] = AfterFetch(@, remote[calls[c].id])]
  /\ UNCHANGED <<env, readOnly, remote>>

\* GetFail that issues the GET again
GetFailRetries(c) ==
  /\ calls[c].pc = "get"
  /\ calls' = [calls EXCEPT ![c] = [@ EXCEPT !.trace = Append(@, "GET")]]
  /\ UNCHANGED <<env, readOnly, remote>>

\* non-2xx (the id does not exist) or a network failure: request throws
GetFail(c) ==
  /\ calls[c].pc = "get"
  /\ calls' = [calls EXCEPT ![c] = Thrown(@)]
  /\ UNCHANGED <<env, readOnly, remote>>

\* PutOk that computes the returned diff again, from the answer of the PUT
PutOkRecomputesDiff(c) ==
  /\ calls[c].pc = "put"
  /\ calls[c].id \in DOMAIN remote
  /\ LET l == calls[c]
         updated == l.body
     IN  /\ remote' = [remote EXCEPT ![l.id] = updated]
         /\ calls' = [calls EXCEPT ![c] =
              Returned([l EXCEPT !.before = remote[l.id]],
                [k \in {"message", "checkId", "checkName", "diff", "updatedAt"} |->
                   CASE k = "message" -> "Check updated successfully."
                     [] k = "checkId" -> Get(updated, "id")
                     [] k = "checkName" -> Get(updated, "name")
                     [] k = "diff" -> Diff(updated, l.updates)
                     [] k = "updatedAt" -> Get(updated, "updatedAt")])]
  /\ UNCHANGED <<env, readOnly>>

\* the service replaces the stored check by the body and answers with it
PutOk(c) ==
  /\ calls[c].pc = "put"
  /\ calls[c].id \in DOMAIN remote
  /\ LET l == calls[c]
         updated == l.body
     IN  /\ remote' = [remote EXCEPT ![l.id] = updated]
         /\ calls' = [calls EXCEPT ![c] =
              Returned([l EXCEPT !.before = remote[l.id]],
                [k \in {"message", "checkId", "checkName", "diff", "updatedAt"} |->
                   CASE k = "message" -> "Check updated successfully."
                     [] k = "checkId" -> Get(updated, "id")
                     [] k = "checkName" -> Get(updated, "name")
                     [] k = "diff" -> l.diff
                     [] k = "updatedAt" -> Get(updated, "updatedAt")])]
  /\ UNCHANGED <<env, readOnly>>

PutFail(c) ==
  /\ calls[c].pc = "put"
  /\ calls' = [calls EXCEPT ![c] = Thrown(@)]
  /\ UNCHANGED <<env, readOnly, remote>>

\* another writer (the Checkly UI, another client) changes the tags of the
\* check while an update_check call is under way
OtherWriter(v) ==
  /\ \E c \in Calls : calls[c].tool = "update_check" /\ calls[c].pc # "idle"
  /\ Get(remote["X"], "tags") # v
  /\ remote' = [remote EXCEPT !["X"] = Spread(@, [k \in {"tags"} |-> v])]
  /\ calls' = [c \in Calls |->
       IF calls[c].pc = "idle" THEN calls[c]
       ELSE [calls[c] EXCEPT !.disturbed = TRUE]]
  /\ UNCHANGED <<env, readOnly>>

(***************************************************************************)
(* run_check                                                               *)
(***************************************************************************)
PauseSec == 3
DeadlineSec == 120
Statuses == {"PROGRESS", "PASSED", "FAILED"}
Status(st) == Str(Rep(st, 1))

\* the n-th session of a trigger response
Session(n, status) ==
  [k \in {"checkSessionId", "checkSessionLink", "checkId", "name", "status"} |->
     CASE k = "checkSessionId" -> Str(Rep("S", n))
       [] k = "checkSessionLink" -> Str(Rep("L", n))
       [] k = "checkId" -> Str(Rep("X", 1))
       [] k = "name" -> NameP
       [] k = "status" -> Status(status)]

\* what a successful trigger can answer: no sessions field at all (an empty
\* body), or 0..MaxSessions sessions
TriggerResponses ==
  {EmptyObject} \cup
  {[k \in {"sessions"} |-> [n \in 1..len |-> Session(n, "PROGRESS")]] :
     len \in 0..MaxSessions}

NotTriggeredResult(id) ==
  [k \in {"error", "checkId"} |->
     IF k = "error"
     THEN "Check was not triggered. It may be deactivated or belong to an inactive check group."
     ELSE id]

TriggeredResult(session) ==
  [k \in {"message", "checkId", "checkName", "sessionId", "status",
          "runLocations", "startedAt", "checkSessionLink", "hint"} |->
     CASE k = "message" -> "Check triggered."
       [] k = "checkId" -> Get(session, "checkId")
       [] k = "checkName" -> Get(session, "name")
       [] k = "sessionId" -> Get(session, "checkSessionId")
       [] k = "status" -> Get(session, "status")
       [] k = "runLocations" -> Get(session, "runLocations")
       [] k = "startedAt" -> Get(session, "startedAt")
       [] k = "checkSessionLink" -> Get(session, "checkSessionLink")
       [] k = "hint" ->
            "Poll with get_session_status(sessionId) or wait and call get_check_results(checkId)."]

CompletedResult(polled) ==
  [k \in {"message", "checkId", "checkName", "sessionId", "status",
          "runLocations", "startedAt", "stoppedAt", "timeElapsedMs",
          "checkSessionLink", "results"} |->
     CASE k = "message" -> <<"Check completed: ", Get(polled, "status")>>
       [] k = "checkId" -> Get(polled, "checkId")
       [] k = "checkName" -> Get(polled, "name")
       [] k = "sessionId" -> Get(polled, "checkSessionId")
       [] k = "status" -> Get(polled, "status")
       [] k = "runLocations" -> Get(polled, "runLocations")
       [] k = "startedAt" -> Get(polled, "startedAt")
       [] k = "stoppedAt" -> Get(polled, "stoppedAt")
       [] k = "timeElapsedMs" -> Get(polled, "timeElapsed")
       [] k = "checkSessionLink" -> Get(polled, "checkSessionLink")
       [] k = "results" -> <<>>]

TimeoutResult(sessionId, session) ==
  [k \in {"message", "sessionId", "checkSessionLink", "hint"} |->
     CASE k = "message" -> "Timed out waiting for check to complete (120s)."
       [] k = "sessionId" -> sessionId
       [] k = "checkSessionLink" -> Get(session, "checkSessionLink")
       [] k = "hint" ->
            "Check is still running. Use checkSessionLink to view in Checkly UI."]

\* LoopTop that issues the session GET without pausing first
LoopTopPollsFirst(l) ==
  IF l.now < l.deadline
  THEN [l EXCEPT !.pc = "poll", !.trace = Append(@, "POLL")]
  ELSE Returned(l, TimeoutResult(Get(l.session, "checkSessionId"), l.session))

\* LoopTop that awaits a timer nobody fires once the deadline has passed
LoopTopHangs(l) ==
  IF l.now < l.deadline
  THEN [l EXCEPT !.pc = "pause", !.trace = Append(@, "PAUSE")]
  ELSE [l EXCEPT !.pc = "hung"]

\* LoopTop with while (Date.now() <= deadline)
LoopTopInclusiveDeadline(l) ==
  IF l.now <= l.deadline
  THEN [l EXCEPT !.pc = "pause", !.trace = Append(@, "PAUSE")]
  ELSE Returned(l, TimeoutResult(Get(l.session, "checkSessionId"), l.session))

\* while (Date.now() < deadline): the next pause begins, or the loop ends
\* with the timeout result
LoopTop(l) ==
  IF l.now < l.deadline
  THEN [l EXCEPT !.pc = "pause", !.trace = Append(@, "PAUSE")]
  ELSE Returned(l, TimeoutResult(Get(l.session, "checkSessionId"), l.session))

\* runCheck up to its first await: the gate, then the trigger POST is issued
StartRun(c, id, awaitResult) ==
  /\ \A d \in Calls : calls[d].pc = "idle"
  /\ LET l == [Idle EXCEPT !.tool = "run_check", !.id = id,
                           !.awaitResult = awaitResult]
     IN  calls' = [calls EXCEPT ![c] =
           IF readOnly
           THEN Returned(l, ReadOnlyResult)
           ELSE [l EXCEPT !.pc = "trigger", !.trace = Append(@, "POST")]]
  /\ UNCHANGED <<env, readOnly, remote>>

\* const sessions = response.sessions ?? []
SessionsOf(response) ==
  IF "sessions" \in DOMAIN response THEN response["sessions"] ELSE <<>>

\* AfterTrigger that looks for an empty session list only when not awaiting
AfterTriggerAwaitSkipsEmptyCheck(l, response) ==
  LET sessions == SessionsOf(response)
      session == IF Len(sessions) = 0 THEN EmptyObject ELSE sessions[1]
  IN  IF Len(sessions) = 0 /\ ~l.awaitResult
      THEN Returned(l, NotTriggeredResult(l.id))
      ELSE IF ~l.awaitResult
      THEN Returned([l EXCEPT !.session = session], TriggeredResult(session))
      ELSE LoopTop([l EXCEPT !.session = session, !.entry = l.now,
                             !.deadline = l.now + DeadlineSec])

\* AfterTrigger that takes the last session of the response
AfterTriggerLastSession(l, response) ==
  LET sessions == SessionsOf(response)
  IN  IF Len(sessions) = 0
      THEN Returned(l, NotTriggeredResult(l.id))
      ELSE LET session == sessions[Len(sessions)]
           IN  IF ~l.awaitResult
               THEN Returned([l EXCEPT !.session = session],
                             TriggeredResult(session))
               ELSE LoopTop([l EXCEPT !.session = session, !.entry = l.now,
                                      !.deadline = l.now + DeadlineSec])

\* the rest of runCheck once the trigger has answered, down to the first
\* pause of the await loop
AfterTrigger(l, response) ==
  LET sessions == SessionsOf(response)
  IN  IF Len(sessions) = 0
      THEN Returned(l, NotTriggeredResult(l.id))
      ELSE LET session == sessions[1]
           IN  IF ~l.awaitResult
               THEN Returned([l EXCEPT !.session = session],
                             TriggeredResult(session))
               ELSE LoopTop([l EXCEPT !.session = session, !.entry = l.now,
                                      !.deadline = l.now + DeadlineSec])

\* the trigger answers 2xx for a check the service knows
TriggerOk(c, response, latency) ==
  /\ calls[c].pc = "trigger"
  /\ calls[c].id \in DOMAIN remote
  /\ calls' = [calls EXCEPT ![c] =
       AfterTrigger([@ EXCEPT !.now = @ + latency,
                              !.sessionsSeen =
                                 IF "sessions" \notin DOMAIN response
                                 THEN "missing"
                                 ELSE IF Len(response["sessions"]) = 0
                                 THEN "empty"
                                 ELSE IF Len(response["sessions"]) = 1
                                 THEN "one" ELSE "several"],
                    response)]
  /\ UNCHANGED <<env, readOnly, remote>>

TriggerFail(c) ==
  /\ calls[c].pc = "trigger"
  /\ calls' = [calls EXCEPT ![c] = Thrown(@)]
  /\ UNCHANGED <<env, readOnly, remote>>

\* the 3-second timer fires and the session GET is issued
PauseDone(c) ==
  /\ calls[c].pc = "pause"
  /\ calls' = [calls EXCEPT ![c] =
       [@ EXCEPT !.pc = "poll", !.now = @ + PauseSec,
                 !.trace = Append(@, "POLL")]]
  /\ UNCHANGED <<env, readOnly, remote>>

\* AfterPoll that ends the loop on PASSED only
AfterPollOnlyPassed(l, polled) ==
  IF Get(polled, "status") = Status("PASSED")
  THEN Returned(l, CompletedResult(polled))
  ELSE LoopTop(l)

\* the rest of an iteration once the session GET has answered
AfterPoll(l, polled) ==
  IF Get(polled, "status") # Status("PROGRESS")
  THEN Returned(l, CompletedResult(polled))
  ELSE LoopTop(l)

PollOk(c, status, latency) ==
  /\ calls[c].pc = "poll"
  /\ calls' = [calls EXCEPT ![c] =
       AfterPoll([@ EXCEPT !.now = @ + latency,
                           !.statuses = Append(@, status)],
                 Spread(calls[c].session,
                        [k \in {"status"} |-> Status(status)]))]
  /\ UNCHANGED <<env, readOnly, remote>>

\* PollFail that takes the failure for a session still in progress
PollFailSwallowed(c) ==
  /\ calls[c].pc = "poll"
  /\ calls' = [calls EXCEPT ![c] = LoopTop(@)]
  /\ UNCHANGED <<env, readOnly, remote>>

\* the session GET fails: request throws and the loop is left
PollFail(c) ==
  /\ calls[c].pc = "poll"
  /\ calls' = [calls EXCEPT ![c] = Thrown(@)]
  /\ UNCHANGED <<env, readOnly, remote>>

\* the steps a call takes once it has begun: an awaited remote call answers
\* or fails, or the timer of the pause fires
UpdateStep(c) == GetOk(c) \/ GetFail(c) \/ PutOk(c) \/ PutFail(c)

RunStep(c) ==
  \/ \E response \in TriggerResponses, latency \in Latencies :
       TriggerOk(c, response, latency)
  \/ TriggerFail(c)
  \/ PauseDone(c)
  \/ \E status \in Statuses, latency \in Latencies : PollOk(c, status, latency)
  \/ PollFail(c)

(***************************************************************************)
(* The specification: one tool call, in the first call slot.               *)
(***************************************************************************)
Next ==
  \/ \E c \in Sequential, id \in Ids, args \in UpdateArgs, confirm \in BOOLEAN :
       StartUpdate(c, id, args, confirm)
  \/ \E c \in Sequential : CallAgain(c)
  \/ \E c \in Sequential : ApplyPreviewed(c)
  \/ \E c \in Sequential : GetOk(c)
  \/ \E c \in Sequential : GetFail(c)
  \/ \E c \in Sequential : PutOk(c)
  \/ \E c \in Sequential : PutFail(c)
  \/ \E v \in {TagsOne, TagsTwo} : OtherWriter(v)
  \/ \E c \in Sequential, id \in Ids, awaitResult \in BOOLEAN :
       StartRun(c, id, awaitResult)
  \/ \E c \in Sequential, response \in TriggerResponses, latency \in Latencies :
       TriggerOk(c, response, latency)
  \/ \E c \in Sequential : TriggerFail(c)
  \/ \E c \in Sequential : PauseDone(c)
  \/ \E c \in Sequential, status \in Statuses, latency \in Latencies :
       PollOk(c, status, latency)
  \/ \E c \in Sequential : PollFail(c)

Spec == Init /\ [][Next]_vars

(***************************************************************************)
(* Overlapping tool calls: the handler is an async function, so a request  *)
(* that arrives while another call awaits a timer or a remote answer       *)
(* begins at once, in a call slot of its own.                              *)
(***************************************************************************)
InFlight(l) == l.pc \notin {"idle", "done"}

\* the requests that arrive while another call is under way
OverlapArgs ==
  {a \in UpdateArgs : DOMAIN a \subseteq {"name", "frequency"}}

\* the remote calls of an overlapping call answer within the other's pause
OverlapLatencies == {0}

\* an update_check that cannot begin while another call is in its pause
OverlapUpdateWaitsForPause(c, id, args, confirm) ==
  /\ calls[c].pc = "idle"
  /\ \E d \in Calls \ {c} : InFlight(calls[d]) /\ calls[d].pc # "pause"
  /\ calls' = [calls EXCEPT ![c] =
       EnterUpdate([Idle EXCEPT !.tool = "update_check", !.id = id,
                                !.updates = HandlerUpdates(args),
                                !.confirm = confirm])]
  /\ UNCHANGED <<env, readOnly, remote>>

\* an update_check request arrives while another call is under way
OverlapUpdate(c, id, args, confirm) ==
  /\ calls[c].pc = "idle"
  /\ \E d \in Calls \ {c} : InFlight(calls[d])
  /\ calls' = [calls EXCEPT ![c] =
       EnterUpdate([Idle EXCEPT !.tool = "update_check", !.id = id,
                                !.updates = HandlerUpdates(args),
                                !.confirm = confirm,
                                !.arrivedInPause =
                                   \E d \in Calls \ {c} :
                                     calls[d].pc = "pause"])]
  /\ UNCHANGED <<env, readOnly, remote>>

\* a run_check request arrives while another call is under way
OverlapRun(c, id, awaitResult) ==
  /\ calls[c].pc = "idle"
  /\ \E d \in Calls \ {c} : InFlight(calls[d])
  /\ LET l == [Idle EXCEPT !.tool = "run_check", !.id = id,
                           !.awaitResult = awaitResult,
                           !.arrivedInPause =
                              \E d \in Calls \ {c} : calls[d].pc = "pause"]
     IN  calls' = [calls EXCEPT ![c] =
           IF readOnly
           THEN Returned(l, ReadOnlyResult)
           ELSE [l EXCEPT !.pc = "trigger", !.trace = Append(@, "POST")]]
  /\ UNCHANGED <<env, readOnly, remote>>

\* the server runs with writes enabled and holds the base check
InitOverlap ==
  /\ env = Str(FromChars(<<"f", "a", "l", "s", "e">>))
  /\ readOnly = GetConfigReadOnly(env)
  /\ remote = [i \in {"X"} |-> BaseCheck]
  /\ calls = [c \in Calls |-> Idle]

NextOverlap ==
  \/ \E c \in Sequential : StartRun(c, "X", TRUE)
  \/ \E c \in Calls, args \in OverlapArgs, confirm \in BOOLEAN :
       OverlapUpdate(c, "X", args, confirm)
  \/ \E c \in Calls, awaitResult \in BOOLEAN : OverlapRun(c, "X", awaitResult)
  \/ \E c \in Calls : GetOk(c)
  \/ \E c \in Calls : GetFail(c)
  \/ \E c \in Calls : PutOk(c)
  \/ \E c \in Calls : PutFail(c)
  \/ \E c \in Calls, response \in TriggerResponses, latency \in OverlapLatencies :
       TriggerOk(c, response, latency)
  \/ \E c \in Calls : TriggerFail(c)
  \/ \E c \in Calls : PauseDone(c)
  \/ \E c \in Calls, status \in Statuses, latency \in OverlapLatencies :
       PollOk(c, status, latency)
  \/ \E c \in Calls : PollFail(c)

SpecOverlap == InitOverlap /\ [][NextOverlap]_vars

(***************************************************************************)
(* One run_check call under the assumption that every remote call answers  *)
(* or fails and every timer fires.                                         *)
(***************************************************************************)
InitRun ==
  /\ env \in EnvValues
  /\ readOnly = GetConfigReadOnly(env)
  /\ remote = [i \in {"X"} |-> BaseCheck]
  /\ calls = [c \in Calls |-> Idle]

NextRun ==
  \/ \E c \in Sequential, id \in Ids, awaitResult \in BOOLEAN :
       StartRun(c, id, awaitResult)
  \/ \E c \in Sequential, response \in TriggerResponses, latency \in Latencies :
       TriggerOk(c, response, latency)
  \/ \E c \in Sequential : TriggerFail(c)
  \/ \E c \in Sequential : PauseDone(c)
  \/ \E c \in Sequential, status \in Statuses, latency \in Latencies :
       PollOk(c, status, latency)
  \/ \E c \in Sequential : PollFail(c)

SpecRun ==
  InitRun /\ [][NextRun]_vars /\ \A c \in Sequential : WF_vars(RunStep(c))

(***************************************************************************)
(* Properties.                                                             *)
(***************************************************************************)
Count(trace, e) == Cardinality({i \in DOMAIN trace : trace[i] = e})
Fetched(l) == DOMAIN l.current # {}
Supplied(l) == {k \in UpdateKeys : l.updates[k] # Undefined}
IsUpdate(l) == l.tool = "update_check" /\ l.pc # "idle"
IsRun(l) == l.tool = "run_check" /\ l.pc # "idle"

\* C1: with the read-only flag set, update_check and run_check return a
\* result carrying an error field and issue no remote call at all, for every
\* id, update request, confirm value and await value.
C1_GateBlocksAllRemoteCalls ==
  \A c \in Calls :
    (readOnly /\ calls[c].pc # "idle") =>
      /\ calls[c].pc = "done"
      /\ "error" \in DOMAIN calls[c].result
      /\ calls[c].trace = <<>>

C1_Witness ==
  \E c \in Calls :
    /\ readOnly
    /\ IsUpdate(calls[c]) /\ calls[c].pc = "done"
    /\ calls[c].confirm /\ Supplied(calls[c]) # {}

\* C2: in every PUT that update_check issues, each field of the fetched
\* check that the request does not supply is present in the body with the
\* fetched value, and each supplied field carries the requested value.
C2_PutBodyIsFetchedWithOverlay ==
  \A c \in Calls :
    (IsUpdate(calls[c]) /\ Count(calls[c].trace, "PUT") > 0) =>
      LET l == calls[c] IN
      /\ \A k \in Supplied(l) : Get(l.body, k) = l.updates[k]
      /\ \A k \in (DOMAIN l.current) \ Supplied(l) :
           k \in DOMAIN l.body /\ l.body[k] = l.current[k]

\* C3: after an applied update_check, every field of the remote check that
\* the request did not name has the value it had immediately before the
\* write.
C3_UnnamedFieldsKeepValueAcrossWrite ==
  \A c \in Calls :
    (IsUpdate(calls[c]) /\ calls[c].pc = "done"
       /\ DOMAIN calls[c].before # {}) =>
      LET l == calls[c] IN
      \A k \in (DOMAIN l.before) \ Supplied(l) :
        Get(l.body, k) = l.before[k]

\* C4: when every supplied field equals the fetched value (also when no
\* field is supplied), update_check returns the no-changes result with an
\* empty diff and issues no PUT, whatever confirm is.
AllSuppliedEqual(l) == \A k \in Supplied(l) : l.updates[k] = Get(l.current, k)

C4_NoChangeNeverWrites ==
  \A c \in Calls :
    (IsUpdate(calls[c]) /\ Fetched(calls[c]) /\ AllSuppliedEqual(calls[c])) =>
      /\ calls[c].pc = "done"
      /\ ~calls[c].isError
      /\ DOMAIN calls[c].result = {"message", "diff"}
      /\ calls[c].result["message"] = "No changes detected."
      /\ calls[c].result["diff"] = EmptyObject
      /\ calls[c].trace = <<"GET">>

C4_Witness ==
  \E c \in Calls :
    /\ IsUpdate(calls[c]) /\ Fetched(calls[c]) /\ AllSuppliedEqual(calls[c])
    /\ calls[c].confirm
    /\ Cardinality(Supplied(calls[c])) >= 2
    /\ calls[c].pc = "done"

\* C5: a dry run (confirm=false, some supplied field differs) issues no
\* PUT and leaves the remote check as fetched; issued a second time with no
\* other writer in between it returns the same result, diff included; and
\* frequency=10 against frequency 5 previews {frequency: {from: 5, to: 10}}.
IsDryRun(l) ==
  IsUpdate(l) /\ Fetched(l) /\ ~l.confirm /\ ~AllSuppliedEqual(l)

C5_DryRunReadOnlyAndIdempotent ==
  \A c \in Calls :
    IsDryRun(calls[c]) =>
      LET l == calls[c] IN
      /\ l.pc = "done"
      /\ l.trace = <<"GET">>
      /\ "diff" \in DOMAIN l.result /\ DOMAIN l.result["diff"] # {}
      /\ ~l.disturbed => remote[l.id] = l.current
      /\ (l.attempt = 2 /\ ~l.disturbed /\ "diff" \in DOMAIN l.prevResult) =>
           l.result = l.prevResult
      /\ (Supplied(l) = {"frequency"} /\ l.updates["frequency"] = Num(10)
            /\ Get(l.current, "frequency") = Num(5)) =>
           l.result["diff"] =
             [k \in {"frequency"} |-> [from |-> Num(5), to |-> Num(10)]]

C5_Witness ==
  \E c \in Calls :
    /\ IsDryRun(calls[c])
    /\ calls[c].attempt = 2 /\ ~calls[c].disturbed
    /\ "diff" \in DOMAIN calls[c].prevResult
    /\ Supplied(calls[c]) = {"frequency"}
    /\ calls[c].updates["frequency"] = Num(10)
    /\ calls[c].pc = "done"

\* C6: when update_check applies a requested string, the PUT body carries
\* the full requested string; the diff entry shows a string of more than
\* 120 characters as its first 120 characters followed by the ellipsis
\* marker, and a string of 120 characters or fewer as it is.
C6_TruncationIsDisplayOnly ==
  \A c \in Calls :
    (IsUpdate(calls[c]) /\ Count(calls[c].trace, "PUT") > 0) =>
      LET l == calls[c] IN
      /\ (l.pc = "done" /\ ~l.isError) => l.result["diff"] = l.diff
      /\ \A k \in Supplied(l) :
           typeof(l.updates[k]) = "string" =>
             /\ Get(l.body, k) = l.updates[k]
             /\ k \in DOMAIN l.diff =>
                  LET to == l.diff[k].to IN
                  IF length(l.updates[k][2]) > 120
                  THEN /\ typeof(to) = "string"
                       /\ length(to[2]) = 121
                       /\ slice(to[2], 120) = slice(l.updates[k][2], 120)
                       /\ to[2][Len(to[2])] = <<"ELLIPSIS", 1>>
                  ELSE to = l.updates[k]

C6_Witness ==
  \E c \in Calls :
    /\ IsUpdate(calls[c]) /\ calls[c].pc = "done" /\ ~calls[c].isError
    /\ Count(calls[c].trace, "PUT") > 0
    /\ calls[c].updates["script"] = LongScript
    /\ "script" \in DOMAIN calls[c].diff
    /\ Get(remote[calls[c].id], "script") = LongScript

\* C7: when the trigger succeeds with no sessions field or an empty session
\* list, run_check returns a result carrying an error field and the target
\* id, does not raise, and issues nothing but the trigger POST: no pause and
\* no session GET, whatever await is.
C7_ZeroSessionsNeverPolls ==
  \A c \in Calls :
    (IsRun(calls[c]) /\ calls[c].sessionsSeen \in {"missing", "empty"}) =>
      /\ calls[c].pc = "done"
      /\ ~calls[c].isError
      /\ DOMAIN calls[c].result = {"error", "checkId"}
      /\ calls[c].result["checkId"] = calls[c].id
      /\ calls[c].trace = <<"POST">>

C7_Witness ==
  \E c \in Calls :
    /\ IsRun(calls[c]) /\ calls[c].awaitResult
    /\ calls[c].sessionsSeen = "missing"
    /\ calls[c].pc = "done"

\* C8: with await=true, once a poll has answered with a status other than
\* PROGRESS, that poll is the last one: every earlier poll answered
\* PROGRESS, run_check has returned the completion result carrying that
\* status, the number of polls issued equals the number answered, and the
\* timeout result is returned only when every poll answered PROGRESS.
IsTimeout(l) ==
  l.pc = "done" /\ ~l.isError /\ DOMAIN l.result =
    {"message", "sessionId", "checkSessionLink", "hint"}

C8_ReturnsAtFirstFinishedPoll ==
  \A c \in Calls :
    IsRun(calls[c]) =>
      LET l == calls[c]
          N == Len(l.statuses)
      IN  /\ \A i \in 1..(N - 1) : l.statuses[i] = "PROGRESS"
          /\ (N > 0 /\ l.statuses[N] # "PROGRESS") =>
               /\ l.pc = "done" /\ ~l.isError
               /\ "status" \in DOMAIN l.result
               /\ l.result["status"] = Status(l.statuses[N])
               /\ Count(l.trace, "POLL") = N
          /\ IsTimeout(l) => \A i \in 1..N : l.statuses[i] = "PROGRESS"

C8_Witness ==
  \E c \in Calls :
    /\ IsRun(calls[c]) /\ calls[c].pc = "done"
    /\ calls[c].statuses = <<"PROGRESS", "PROGRESS", "FAILED">>
    /\ Count(calls[c].trace, "POLL") = 3

\* C9: with await=true and a session that stays in PROGRESS, the timeout
\* result is returned only once the deadline, 120 seconds after loop entry,
\* has passed, and no session poll is issued later than that deadline (a
\* call is at "poll" from the moment its session GET is issued).
C9_NoPollAfterDeadline ==
  \A c \in Calls :
    (IsRun(calls[c]) /\ calls[c].awaitResult) =>
      LET l == calls[c] IN
      /\ IsTimeout(l) => (l.deadline = l.entry + 120 /\ l.now >= l.deadline)
      /\ l.pc = "poll" => l.now <= l.entry + 120

\* C10: in the await loop every session poll comes right after a pause of
\* the same iteration, so pauses and polls are equal in number once the poll
\* is issued, no poll is issued earlier than 3 seconds after loop entry, and
\* a first poll that answers FAILED ends the call with status FAILED after
\* exactly one pause and one poll.
C10_EveryPollFollowsOnePause ==
  \A c \in Calls :
    IsRun(calls[c]) =>
      LET l == calls[c] IN
      /\ \A i \in DOMAIN l.trace :
           l.trace[i] = "POLL" => (i > 1 /\ l.trace[i - 1] = "PAUSE")
      /\ \A i \in DOMAIN l.trace :
           (l.trace[i] = "PAUSE" /\ i < Len(l.trace)) => l.trace[i + 1] = "POLL"
      /\ l.pc # "pause" => Count(l.trace, "PAUSE") = Count(l.trace, "POLL")
      /\ l.pc = "poll" => l.now >= l.entry + 3
      /\ l.statuses = <<"FAILED">> =>
           /\ l.pc = "done" /\ ~l.isError
           /\ l.result["status"] = Status("FAILED")
           /\ l.trace = <<"POST", "PAUSE", "POLL">>
           /\ l.now >= l.entry + 3

C10_Witness ==
  \E c \in Calls :
    /\ IsRun(calls[c]) /\ calls[c].pc = "done"
    /\ calls[c].statuses = <<"FAILED">>
    /\ Get(calls[c].session, "status") = Status("PROGRESS")


\* C11: with await=false and a trigger that returns at least one session,
\* run_check returns the triggered result built from the first session of
\* the response, having issued the trigger POST and nothing else.
C11_TriggeredFromFirstSession ==
  \A c \in Calls :
    (IsRun(calls[c]) /\ ~calls[c].awaitResult
       /\ calls[c].sessionsSeen \in {"one", "several"}) =>
      LET l == calls[c] IN
      /\ l.pc = "done" /\ ~l.isError
      /\ l.trace = <<"POST">>
      /\ DOMAIN l.result =
           {"message", "checkId", "checkName", "sessionId", "status",
            "runLocations", "startedAt", "checkSessionLink", "hint"}
      /\ l.result["message"] = "Check triggered."
      /\ l.result["sessionId"] = Str(Rep("S", 1))
      /\ l.result["checkSessionLink"] = Str(Rep("L", 1))
      /\ l.result["status"] = Status("PROGRESS")
      /\ l.result["checkName"] = NameP

C11_Witness ==
  \E c \in Calls :
    /\ IsRun(calls[c]) /\ ~calls[c].awaitResult
    /\ calls[c].sessionsSeen = "several"
    /\ calls[c].pc = "done"

\* C12: a session poll that fails ends the await loop at that poll: a poll
\* that was issued and not answered is either still awaited or has ended the
\* call with an error-flagged response that is neither the timeout nor a
\* completion result, with the failed poll as the last remote call and no
\* step of the call left to take.
C12_FailedPollEndsLoop ==
  \A c \in Calls :
    IsRun(calls[c]) =>
      LET l == calls[c]
          issued == Count(l.trace, "POLL")
          answered == Len(l.statuses)
      IN  /\ issued \in {answered, answered + 1}
          /\ issued = answered + 1 =>
               \/ l.pc = "poll"
               \/ /\ l.pc = "done" /\ l.isError
                  /\ l.result = EmptyObject
                  /\ l.trace[Len(l.trace)] = "POLL"
                  /\ Count(l.trace, "PAUSE") = issued
                  /\ ~ENABLED RunStep(c)

C12_Witness ==
  \E c \in Calls :
    /\ IsRun(calls[c]) /\ calls[c].pc = "done" /\ calls[c].isError
    /\ Count(calls[c].trace, "POLL") = 3
    /\ Len(calls[c].statuses) = 2

\* C13: one update_check call issues at most one GET and at most one PUT,
\* the GET first; a failed GET ends it with an error-flagged response, no
\* diff and no PUT; a failed PUT ends it with an error-flagged response and
\* never the applied result; after a failure the call takes no further step.
C13_UpdateFailuresAreFinal ==
  \A c \in Calls :
    IsUpdate(calls[c]) =>
      LET l == calls[c] IN
      /\ l.trace \in {<<>>, <<"GET">>, <<"GET", "PUT">>}
      /\ l.isError =>
           /\ l.pc = "done"
           /\ l.result = EmptyObject
           /\ l.trace # <<>>
           /\ l.trace = <<"GET">> => (~Fetched(l) /\ l.diff = EmptyObject)
           /\ l.trace = <<"GET", "PUT">> => l.before = EmptyObject
           /\ ~ENABLED UpdateStep(c)

C13_Witness ==
  \E c \in Calls :
    /\ IsUpdate(calls[c]) /\ calls[c].pc = "done" /\ calls[c].isError
    /\ calls[c].trace = <<"GET", "PUT">>


\* C14: the gate is off exactly when CHECKLY_READ_ONLY is the literal
\* "false"; unset, "", "FALSE", "0", "no" and every other value leave it on.
C14_OnlyLiteralFalseDisablesGate ==
  readOnly = FALSE <=>
    env = Str(<< <<"f", 1>>, <<"a", 1>>, <<"l", 1>>, <<"s", 1>>, <<"e", 1>> >>)

C14_Witness ==
  /\ env = Str(<< <<"F", 1>>, <<"A", 1>>, <<"L", 1>>, <<"S", 1>>, <<"E", 1>> >>)
  /\ readOnly
  /\ \E c \in Calls : calls[c].pc = "done" /\ "error" \in DOMAIN calls[c].result


\* C17: the diff an applied update_check returns is the diff of the fetched
\* check against the request, as computed before the write, and after a dry
\* run of the same request with no other writer in between it is, entry for
\* entry, the diff that dry run returned.
IsApplied(l) ==
  IsUpdate(l) /\ l.pc = "done" /\ ~l.isError /\ "updatedAt" \in DOMAIN l.result

IsDryRunResult(r) == DOMAIN r = {"message", "checkId", "checkName", "diff"}

C17_AppliedDiffIsPreviewedDiff ==
  \A c \in Calls :
    IsApplied(calls[c]) =>
      LET l == calls[c]
          d == l.result["diff"]
      IN  /\ DOMAIN d = {k \in Supplied(l) : l.updates[k] # Get(l.current, k)}
          /\ DOMAIN d # {}
          /\ \A k \in DOMAIN d :
               /\ d[k].from = Truncate(Get(l.current, k))
               /\ d[k].to = Truncate(l.updates[k])
          /\ (l.attempt = 2 /\ ~l.disturbed /\ IsDryRunResult(l.prevResult)) =>
               d = l.prevResult["diff"]

C17_Witness ==
  \E c \in Calls :
    /\ IsApplied(calls[c])
    /\ calls[c].attempt = 2 /\ ~calls[c].disturbed
    /\ IsDryRunResult(calls[c].prevResult)
    /\ {"script", "frequency"} \subseteq DOMAIN calls[c].result["diff"]

\* C18: when the fetched frequency is one of 1, 2, 5, 10, 15, 30, 60, 720,
\* 1440, the PUT body of an update_check that requests a frequency, whatever
\* the requested value, carries a frequency of that set.
AllowedFrequencies == {Num(n) : n \in {1, 2, 5, 10, 15, 30, 60, 720, 1440}}

C18_PutFrequencyIsAllowed ==
  \A c \in Calls :
    (IsUpdate(calls[c]) /\ Count(calls[c].trace, "PUT") > 0
       /\ "frequency" \in Supplied(calls[c])
       /\ Get(calls[c].current, "frequency") \in AllowedFrequencies) =>
      /\ "frequency" \in DOMAIN calls[c].body
      /\ calls[c].body["frequency"] \in AllowedFrequencies

\* C19: one run_check call issues at most 40 session polls.
C19_AtMostFortyPolls ==
  \A c \in Calls : IsRun(calls[c]) => Count(calls[c].trace, "POLL") <= 40

C19_Witness ==
  \E c \in Calls :
    /\ IsRun(calls[c]) /\ IsTimeout(calls[c])
    /\ Count(calls[c].trace, "POLL") = 40
    /\ Len(calls[c].statuses) = 40

\* C20 as stated: every entry of a returned diff shows a from value
\* different from its to value.
C20_DisplayedPairDiffers ==
  \A c \in Calls :
    (IsUpdate(calls[c]) /\ "diff" \in DOMAIN calls[c].result) =>
      \A k \in DOMAIN calls[c].result["diff"] :
        calls[c].result["diff"][k].from # calls[c].result["diff"][k].to

\* C20, amended: a field is listed only when the fetched and the requested
\* value differ, and the pair as displayed is equal only when both values
\* are strings of more than 120 characters with the same first 120
\* characters.
C20_ListedValuesDiffer ==
  \A c \in Calls :
    (IsUpdate(calls[c]) /\ "diff" \in DOMAIN calls[c].result) =>
      LET l == calls[c]
          d == l.result["diff"]
      IN  \A k \in DOMAIN d :
            LET cur == Get(l.current, k)
                req == l.updates[k]
            IN  /\ cur # req
                /\ d[k].from = d[k].to =>
                     /\ typeof(cur) = "string" /\ typeof(req) = "string"
                     /\ length(cur[2]) > 120 /\ length(req[2]) > 120
                     /\ slice(cur[2], 120) = slice(req[2], 120)

C20_Witness ==
  \E c \in Calls :
    /\ IsUpdate(calls[c]) /\ calls[c].pc = "done"
    /\ "diff" \in DOMAIN calls[c].result
    /\ "script" \in DOMAIN calls[c].result["diff"]
    /\ calls[c].result["diff"]["script"].from = calls[c].result["diff"]["script"].to


\* C15: the pause of an await loop suspends only the call that owns it.
\* While a run_check call is in its pause, a free call slot can begin an
\* update_check or a run_check, a call under way can take its next step, and
\* every step changes the locals of one call only.
C15_OthersProceed ==
  \A c \in Calls : \A d \in Calls \ {c} :
    calls[c].pc = "pause" =>
      /\ calls[d].pc = "idle" =>
           /\ ENABLED (\E args \in OverlapArgs, confirm \in BOOLEAN :
                         OverlapUpdate(d, "X", args, confirm))
           /\ ENABLED (\E awaitResult \in BOOLEAN :
                         OverlapRun(d, "X", awaitResult))
      /\ InFlight(calls[d]) => ENABLED (UpdateStep(d) \/ RunStep(d))

C15_StepOfOneCall ==
  \A c \in Calls :
    calls'[c] # calls[c] => \A d \in Calls \ {c} : calls'[d] = calls[d]

C15_PauseSuspendsOnlyItsOwner ==
  [](C15_OthersProceed) /\ [][C15_StepOfOneCall]_vars

C15_Witness ==
  \E c \in Calls : \E d \in Calls \ {c} :
    /\ IsRun(calls[c]) /\ calls[c].pc = "pause"
    /\ Count(calls[c].trace, "PAUSE") = 1
    /\ IsUpdate(calls[d]) /\ calls[d].arrivedInPause
    /\ calls[d].pc = "done" /\ ~calls[d].isError
    /\ Count(calls[d].trace, "GET") = 1 /\ Count(calls[d].trace, "PUT") = 1

\* C16: a run_check call with await: true eventually returns, with one of
\* the terminal outcomes: completion, timeout, not triggered, read-only
\* refusal or a surfaced failure.
IsTerminalOutcome(l) ==
  /\ l.pc = "done"
  /\ \/ l.isError
     \/ l.result = ReadOnlyResult
     \/ "timeElapsedMs" \in DOMAIN l.result
     \/ IsTimeout(l)
     \/ l.result = NotTriggeredResult(l.id)

C16_AwaitedRunReturns ==
  \A c \in Calls :
    (IsRun(calls[c]) /\ calls[c].awaitResult) ~> IsTerminalOutcome(calls[c])

C16_Witness ==
  \E c \in Calls :
    /\ IsRun(calls[c]) /\ calls[c].awaitResult
    /\ IsTimeout(calls[c])
    /\ calls[c].now >= calls[c].deadline
    /\ \A i \in 1..Len(calls[c].statuses) : calls[c].statuses[i] = "PROGRESS"

====
